---- MODULE Spec2Model ----
(***************************************************************************)
(* Model of src/her.py: the HER training loop run by W MPI ranks.          *)
(*   mpi_average (lines 15-20) : the cross-rank mean of a local value      *)
(*   train       (lines 23-110): epoch / cycle / batch loop, log           *)
(*                               aggregation, checkpoint decisions and the *)
(*                               per-epoch seed decorrelation check        *)
(* Numbers (success rates, means) are exact fractions [num, den] in lowest *)
(* terms with den > 0.                                                     *)
(***************************************************************************)
EXTENDS Integers, Sequences, FiniteSets, TLC

\* ------------------------------------------------------------- bounds
MaxW == 2            \* world sizes 1..MaxW
MaxRankEpochs == 4   \* W * n_epochs, the epochs run by all ranks together
MaxInterval == 3     \* policy_save_interval in 0..MaxInterval
MaxLen == 2          \* length of a local list handed to mpi_average
MaxWorld == 1000     \* the largest world size whose seeds are compared
MaxInner == 2        \* n_cycles, n_batches, n_test_rollouts in 0..MaxInner

\* ------------------------------------------------------------- fractions
Abs(n) == IF n < 0 THEN -n ELSE n

RECURSIVE GCD(_, _)
GCD(a, b) == IF b = 0 THEN a ELSE GCD(b, a % b)

\* n/d in lowest terms, d > 0
Frac(n, d) ==
    LET g == GCD(Abs(n), d)
    IN  [num |-> n \div g, den |-> d \div g]

FracAdd(a, b) == Frac(a.num * b.den + b.num * a.den, a.den * b.den)
FracGE(a, b) == a.num * b.den >= b.num * a.den
FracLT(a, b) == a.num * b.den < b.num * a.den
Zero == Frac(0, 1)
\* 0/0, what numpy returns for the mean of no numbers
NaN == [num |-> 0, den |-> 0]

RECURSIVE SumSeq(_)
SumSeq(s) == IF s = <<>> THEN Zero ELSE FracAdd(Head(s), SumSeq(Tail(s)))

\* ------------------------------------------------------------- mpi_average
\* A Python value handed to mpi_average: a list of numbers or a bare number.
PyList(s) == [isList |-> TRUE, val |-> s]
PyScalar(x) == [isList |-> FALSE, val |-> x]

\* Python's any(value): some element is truthy (non-zero).
py_any(s) == \E i \in 1..Len(s) : s[i] # Zero

\* lines 16-19: the list that mpi_average hands to mpi_moments.
\* Mutant: the empty/all-zero substitution of lines 18-19 is left out.
mpi_average_arg_nosubst(value) ==
    IF value.isList THEN value.val ELSE <<value.val>>

mpi_average_arg(value) ==
    LET v == IF value.isList THEN value.val ELSE <<value.val>>
    IN  IF ~py_any(v) THEN <<Zero>> ELSE v

RECURSIVE SumOver(_, _)
SumOver(f, S) ==
    IF S = {} THEN 0
    ELSE LET r == CHOOSE x \in S : TRUE
         IN  f[r] + SumOver(f, S \ {r})

RECURSIVE FracSumOver(_, _)
FracSumOver(f, S) ==
    IF S = {} THEN Zero
    ELSE LET r == CHOOSE x \in S : TRUE
         IN  FracAdd(f[r], FracSumOver(f, S \ {r}))

\* mpi_moments(x)[0]: every rank contributes the sum and the count of its local
\* array; the mean is the global sum over the global count.
mpi_moments_mean(arrays) ==
    LET ranks == DOMAIN arrays
        gsum == FracSumOver([r \in ranks |-> SumSeq(arrays[r])], ranks)
        gcnt == SumOver([r \in ranks |-> Len(arrays[r])], ranks)
    IN  IF gcnt = 0 THEN NaN ELSE Frac(gsum.num, gsum.den * gcnt)

\* line 20 on every rank: the value mpi_average returns, given each rank's argument.
mpi_average(values) ==
    mpi_moments_mean([r \in DOMAIN values |-> mpi_average_arg(values[r])])

\* ------------------------------------------------------------- state
VARIABLES
    \* run configuration (arguments of train, lines 23-25) and world size
    W, n_epochs, n_cycles, n_batches, n_test_rollouts, policy_save_interval, save_path,
    \* per rank: position in train and its loop counters
    pc, epoch, cycle, batch, rollout, key,
    \* per rank: locals of train
    best_success_rate, success_rate, local_uniform, root_uniform,
    \* per rank: the keys of the logger's table since its last dump
    table,
    \* MPI.COMM_WORLD.Bcast from root 0: the value root sent, tagged by epoch
    bcast,
    \* side effects, in the order they happened
    writes,      \* evaluator.save_policy calls: [rank, path, epoch]
    dumps,       \* logger.dump_tabular calls: [rank, epoch, keys]
    rates,       \* aggregated success rate of each finished evaluation
    \* per rank: the calls train has made in the current epoch, in order
    calls,
    \* a single mpi_average call across the ranks
    avg_pc, avg_value, avg_arg, avg_result,
    \* learn on one rank (lines 131-136): its rank, the base seed, the derived seed
    learn_pc, learn_rank, seed, rank_seed

params == <<W, n_epochs, n_cycles, n_batches, n_test_rollouts, policy_save_interval, save_path>>
counters == <<epoch, cycle, batch, rollout, key>>
locals == <<best_success_rate, success_rate, local_uniform, root_uniform>>
effects == <<writes, dumps, rates>>
avgvars == <<avg_pc, avg_value, avg_arg, avg_result>>
seedvars == <<learn_pc, learn_rank, seed, rank_seed>>
vars == <<params, pc, counters, locals, table, bcast, effects, calls, avgvars, seedvars>>

Ranks == 0..(W - 1)

\* Mutant of Sentinel: the tracker starts above every attainable rate.
Sentinel_plus_one == Frac(1, 1)

\* line 39
Sentinel == Frac(-1, 1)

\* evaluator.current_success_rate(): a fraction of successful test rollouts
RateVals == {Frac(0, 1), Frac(1, 5), Frac(3, 10), Frac(1, 2), Frac(3, 5)}
\* np.random.uniform(size=(1,)): two ranks draw the same number or different ones
DrawVals == {1, 2}

\* lines 31-33: the three kinds of checkpoint path
latest_policy_path == [slot |-> "latest", n |-> 0]
best_policy_path == [slot |-> "best", n |-> 0]
periodic_policy_path(e) == [slot |-> "periodic", n |-> e]

\* lines 73-82: the keys of evaluator.logs('test'), rollout_worker.logs('train')
\* and policy.logs(), in the order the three loops aggregate them
LogKeys == <<"test/success_rate", "train/success_rate", "stats_o/mean">>

\* ------------------------------------------------------------- Init
\* no mpi_average call under observation
AvgIdle ==
    /\ avg_pc = [r \in 0..(W - 1) |-> "idle"]
    /\ avg_value = [r \in 0..(W - 1) |-> PyList(<<>>)]
    /\ avg_arg = [r \in 0..(W - 1) |-> <<>>]
    /\ avg_result = [r \in 0..(W - 1) |-> Zero]

\* lines 27-42: every rank is about to enter the epoch loop
TrainStart(first) ==
    /\ pc = [r \in 0..(W - 1) |-> first]
    /\ epoch = [r \in 0..(W - 1) |-> 0]
    /\ cycle = [r \in 0..(W - 1) |-> 0]
    /\ batch = [r \in 0..(W - 1) |-> 0]
    /\ rollout = [r \in 0..(W - 1) |-> 0]
    /\ key = [r \in 0..(W - 1) |-> 1]
    /\ best_success_rate = [r \in 0..(W - 1) |-> Sentinel]
    /\ success_rate = [r \in 0..(W - 1) |-> Zero]
    /\ local_uniform = [r \in 0..(W - 1) |-> 0]
    /\ root_uniform = [r \in 0..(W - 1) |-> 0]
    /\ table = [r \in 0..(W - 1) |-> {}]
    /\ bcast = [epoch |-> -1, val |-> 0]
    /\ writes = <<>>
    /\ dumps = <<>>
    /\ rates = <<>>
    /\ calls = [r \in 0..(W - 1) |-> <<>>]

\* no seed; learn's seeding is not under observation
NoSeed == [some |-> FALSE, val |-> 0]
SeedIdle ==
    /\ learn_pc = "idle"
    /\ learn_rank = 0
    /\ seed = NoSeed
    /\ rank_seed = NoSeed

Init ==
    /\ W \in 1..MaxW
    /\ n_epochs \in 1..MaxRankEpochs
    /\ W * n_epochs <= MaxRankEpochs
    /\ n_cycles = 2
    /\ n_batches = 2
    /\ n_test_rollouts = 2
    /\ policy_save_interval \in 0..MaxInterval
    /\ save_path \in BOOLEAN
    /\ TrainStart("clear_history")
    /\ AvgIdle
    /\ SeedIdle

\* ------------------------------------------------------------- train: one epoch
\* rank r moves from label `from` to label `to`
Goto(r, from, to) ==
    /\ pc[r] = from
    /\ pc' = [pc EXCEPT ![r] = to]

\* rank r makes the call `name`; every rank makes it
Called(r, name) == calls' = [calls EXCEPT ![r] = Append(@, name)]
AllCalled(name) == calls' = [r \in Ranks |-> Append(calls[r], name)]

\* line 50 (line 47: a new epoch starts, and with it a new record of its calls)
ClearHistory(r) ==
    /\ Goto(r, "clear_history",
            IF n_cycles > 0 THEN "generate_rollouts" ELSE "evaluator_clear_history")
    /\ cycle' = [cycle EXCEPT ![r] = 0]
    /\ calls' = [calls EXCEPT ![r] = <<"clear_history">>]
    /\ UNCHANGED <<params, epoch, batch, rollout, key, locals, table, bcast, effects, avgvars, seedvars>>

\* line 54
GenerateRollouts(r) ==
    /\ Goto(r, "generate_rollouts", "store_episode")
    /\ Called(r, "generate_rollouts")
    /\ UNCHANGED <<params, counters, locals, table, bcast, effects, avgvars, seedvars>>

\* lines 55, 58
StoreEpisode(r) ==
    /\ Goto(r, "store_episode", IF n_batches > 0 THEN "train" ELSE "update_target_net")
    /\ batch' = [batch EXCEPT ![r] = 0]
    /\ Called(r, "store_episode")
    /\ UNCHANGED <<params, epoch, cycle, rollout, key, locals, table, bcast, effects, avgvars, seedvars>>

\* Mutant of PolicyTrain: the loop of line 58 runs once more.
PolicyTrain_offbyone(r) ==
    /\ Goto(r, "train", IF batch[r] < n_batches THEN "train" ELSE "update_target_net")
    /\ batch' = [batch EXCEPT ![r] = batch[r] + 1]
    /\ Called(r, "train")
    /\ UNCHANGED <<params, epoch, cycle, rollout, key, locals, table, bcast, effects, avgvars, seedvars>>

\* lines 58-59
PolicyTrain(r) ==
    /\ Goto(r, "train", IF batch[r] + 1 < n_batches THEN "train" ELSE "update_target_net")
    /\ batch' = [batch EXCEPT ![r] = batch[r] + 1]
    /\ Called(r, "train")
    /\ UNCHANGED <<params, epoch, cycle, rollout, key, locals, table, bcast, effects, avgvars, seedvars>>

\* lines 60, 52
UpdateTargetNet(r) ==
    /\ Goto(r, "update_target_net",
            IF cycle[r] + 1 < n_cycles THEN "generate_rollouts" ELSE "evaluator_clear_history")
    /\ cycle' = [cycle EXCEPT ![r] = cycle[r] + 1]
    /\ Called(r, "update_target_net")
    /\ UNCHANGED <<params, epoch, batch, rollout, key, locals, table, bcast, effects, avgvars, seedvars>>

\* lines 65-66
EvaluatorClearHistory(r) ==
    /\ Goto(r, "evaluator_clear_history",
            IF n_test_rollouts > 0 THEN "evaluator_generate_rollouts" ELSE "record_logs")
    /\ rollout' = [rollout EXCEPT ![r] = 0]
    /\ key' = [key EXCEPT ![r] = 1]
    /\ Called(r, "evaluator_clear_history")
    /\ UNCHANGED <<params, epoch, cycle, batch, locals, table, bcast, effects, avgvars, seedvars>>

\* Mutant of EvaluatorGenerateRollouts: the loop of line 66 ends after one rollout.
EvaluatorGenerateRollouts_once(r) ==
    /\ Goto(r, "evaluator_generate_rollouts", "record_logs")
    /\ rollout' = [rollout EXCEPT ![r] = rollout[r] + 1]
    /\ Called(r, "evaluator_generate_rollouts")
    /\ UNCHANGED <<params, epoch, cycle, batch, key, locals, table, bcast, effects, avgvars, seedvars>>

\* lines 66-67
EvaluatorGenerateRollouts(r) ==
    /\ Goto(r, "evaluator_generate_rollouts",
            IF rollout[r] + 1 < n_test_rollouts THEN "evaluator_generate_rollouts"
            ELSE "record_logs")
    /\ rollout' = [rollout EXCEPT ![r] = rollout[r] + 1]
    /\ Called(r, "evaluator_generate_rollouts")
    /\ UNCHANGED <<params, epoch, cycle, batch, key, locals, table, bcast, effects, avgvars, seedvars>>

\* All ranks stand in the same collective call (an Allreduce returns on a rank
\* only once every rank of the communicator has entered it).
AllAt(label) == \A r \in Ranks : pc[r] = label

\* Mutant of RecordLogs: the aggregation goes on among the ranks that have not failed.
RecordLogs_alive ==
    LET Alive == {r \in Ranks : pc[r] # "failed"}
    IN  /\ Alive # {}
        /\ \A r \in Alive : pc[r] = "record_logs"
        /\ \E k \in 1..Len(LogKeys) :
            /\ \A r \in Alive : key[r] = k
            /\ table' = [r \in Ranks |-> IF r \notin Alive THEN table[r] ELSE
                            table[r] \cup (IF k = 1 THEN {"epoch"} ELSE {}) \cup {LogKeys[k]}]
            /\ key' = [r \in Ranks |-> IF r \in Alive THEN k + 1 ELSE key[r]]
            /\ calls' = [r \in Ranks |->
                            IF r \in Alive THEN Append(calls[r], LogKeys[k]) ELSE calls[r]]
            /\ pc' = [r \in Ranks |-> IF r \notin Alive THEN pc[r]
                            ELSE IF k < Len(LogKeys) THEN "record_logs" ELSE "dump_tabular"]
        /\ UNCHANGED <<params, epoch, cycle, batch, rollout, locals, bcast, effects,
                       avgvars, seedvars>>

\* lines 70-82: one logger.record_tabular(key, mpi_average(val)) on every rank
\* (with line 70's record of the epoch before the first); the logger keeps one
\* value per key, and the values themselves are not tracked
RecordLogs ==
    /\ AllAt("record_logs")
    /\ \E k \in 1..Len(LogKeys) :
        /\ \A r \in Ranks : key[r] = k
        /\ table' = [r \in Ranks |->
                        table[r] \cup (IF k = 1 THEN {"epoch"} ELSE {}) \cup {LogKeys[k]}]
        /\ key' = [r \in Ranks |-> k + 1]
        /\ AllCalled(LogKeys[k])
        /\ pc' = [r \in Ranks |-> IF k < Len(LogKeys) THEN "record_logs" ELSE "dump_tabular"]
    /\ UNCHANGED <<params, epoch, cycle, batch, rollout, locals, bcast, effects, avgvars, seedvars>>

\* Mutant of DumpTabular: line 89's aggregation is moved under the branch on rank 0.
DumpTabular_collective_in_branch(r) ==
    /\ Goto(r, "dump_tabular", IF r = 0 THEN "success_rate" ELSE "best_update")
    /\ IF r = 0
       THEN /\ dumps' = Append(dumps, [rank |-> r, epoch |-> epoch[r], keys |-> table[r]])
            /\ table' = [table EXCEPT ![r] = {}]
            /\ Called(r, "dump_tabular")
       ELSE UNCHANGED <<dumps, table, calls>>
    /\ UNCHANGED <<params, counters, locals, bcast, writes, rates, avgvars, seedvars>>

\* lines 85-86
DumpTabular(r) ==
    /\ Goto(r, "dump_tabular", "success_rate")
    /\ IF r = 0
       THEN /\ dumps' = Append(dumps, [rank |-> r, epoch |-> epoch[r], keys |-> table[r]])
            /\ table' = [table EXCEPT ![r] = {}]
            /\ Called(r, "dump_tabular")
       ELSE UNCHANGED <<dumps, table, calls>>
    /\ UNCHANGED <<params, counters, locals, bcast, writes, rates, avgvars, seedvars>>

\* line 89: success_rate = mpi_average(evaluator.current_success_rate()) on every rank
SuccessRate ==
    /\ AllAt("success_rate")
    /\ \E local \in [Ranks -> RateVals] :
        LET s == mpi_average([r \in Ranks |-> PyScalar(local[r])])
        IN  /\ success_rate' = [r \in Ranks |-> s]
            /\ rates' = Append(rates, s)
    /\ pc' = [r \in Ranks |-> "best_update"]
    /\ AllCalled("success_rate")
    /\ UNCHANGED <<params, counters, best_success_rate, local_uniform, root_uniform,
                   table, bcast, writes, dumps, avgvars, seedvars>>

\* str(n) of an integer n >= 0, as its sequence of characters
DigitChars == <<"0", "1", "2", "3", "4", "5", "6", "7", "8", "9">>
RECURSIVE str(_)
str(n) == IF n < 10 THEN <<DigitChars[n + 1]>>
          ELSE str(n \div 10) \o <<DigitChars[(n % 10) + 1]>>

\* Mutant of FileName: line 97's format is left out.
FileName_unformatted(path) ==
    <<"policy_">>
        \o (CASE path.slot = "periodic" -> <<"{", "}">>
              [] path.slot = "best" -> <<"b", "e", "s", "t">>
              [] path.slot = "latest" -> <<"l", "a", "t", "e", "s", "t">>)
        \o <<".pkl">>

\* lines 31-33, 97: the file of a path inside save_path
FileName(path) ==
    <<"policy_">>
        \o (CASE path.slot = "periodic" -> str(path.n)
              [] path.slot = "best" -> <<"b", "e", "s", "t">>
              [] path.slot = "latest" -> <<"l", "a", "t", "e", "s", "t">>)
        \o <<".pkl">>

\* evaluator.save_policy(path) by rank r
SavePolicy(r, path) ==
    [rank |-> r, path |-> path, epoch |-> epoch[r], file |-> FileName(path)]

\* Mutants of BestCond: the tracker is not compared; the rank is not checked.
BestCond_always(r) == r = 0 /\ save_path
BestCond_anyrank(r) == FracGE(success_rate[r], best_success_rate[r]) /\ save_path

\* line 91
BestCond(r) ==
    /\ r = 0
    /\ FracGE(success_rate[r], best_success_rate[r])
    /\ save_path

\* Mutants of BestUpdate: "latest" is written before "best"; the tracker is not set.
BestUpdate_latest_first(r) ==
    /\ Goto(r, "best_update", "periodic")
    /\ IF BestCond(r)
       THEN /\ best_success_rate' = [best_success_rate EXCEPT ![r] = success_rate[r]]
            /\ writes' = writes \o <<SavePolicy(r, latest_policy_path),
                                     SavePolicy(r, best_policy_path)>>
       ELSE UNCHANGED <<best_success_rate, writes>>
    /\ Called(r, "best_update")
    /\ UNCHANGED <<params, counters, success_rate, local_uniform, root_uniform,
                   table, bcast, dumps, rates, avgvars, seedvars>>
BestUpdate_tracker_not_set(r) ==
    /\ Goto(r, "best_update", "periodic")
    /\ IF BestCond(r)
       THEN /\ writes' = writes \o <<SavePolicy(r, best_policy_path),
                                     SavePolicy(r, latest_policy_path)>>
            /\ UNCHANGED best_success_rate
       ELSE UNCHANGED <<best_success_rate, writes>>
    /\ Called(r, "best_update")
    /\ UNCHANGED <<params, counters, success_rate, local_uniform, root_uniform,
                   table, bcast, dumps, rates, avgvars, seedvars>>

\* lines 91-95
BestUpdate(r) ==
    /\ Goto(r, "best_update", "periodic")
    /\ IF BestCond(r)
       THEN /\ best_success_rate' = [best_success_rate EXCEPT ![r] = success_rate[r]]
            /\ writes' = writes \o <<SavePolicy(r, best_policy_path),
                                     SavePolicy(r, latest_policy_path)>>
       ELSE UNCHANGED <<best_success_rate, writes>>
    /\ Called(r, "best_update")
    /\ UNCHANGED <<params, counters, success_rate, local_uniform, root_uniform,
                   table, bcast, dumps, rates, avgvars, seedvars>>

\* Mutants of PeriodicCond: the epoch is counted from 1; save_path is not checked.
PeriodicCond_offbyone(r) ==
    /\ r = 0
    /\ policy_save_interval > 0
    /\ (epoch[r] + 1) % policy_save_interval = 0
    /\ save_path
PeriodicCond_nosavepath(r) ==
    /\ r = 0
    /\ policy_save_interval > 0
    /\ epoch[r] % policy_save_interval = 0

\* line 96
PeriodicCond(r) ==
    /\ r = 0
    /\ policy_save_interval > 0
    /\ epoch[r] % policy_save_interval = 0
    /\ save_path

\* lines 96-99
Periodic(r) ==
    /\ Goto(r, "periodic", "draw")
    /\ IF PeriodicCond(r)
       THEN writes' = Append(writes, SavePolicy(r, periodic_policy_path(epoch[r])))
       ELSE UNCHANGED writes
    /\ Called(r, "periodic")
    /\ UNCHANGED <<params, counters, locals, table, bcast, dumps, rates, avgvars, seedvars>>

\* lines 102-104
Draw(r) ==
    /\ Goto(r, "draw", "bcast")
    /\ \E u \in DrawVals :
        /\ local_uniform' = [local_uniform EXCEPT ![r] = u]
        /\ root_uniform' = [root_uniform EXCEPT ![r] = u]
    /\ Called(r, "draw")
    /\ UNCHANGED <<params, counters, best_success_rate, success_rate,
                   table, bcast, effects, avgvars, seedvars>>

\* line 105 on rank 0: the root sends its buffer and need not wait for the receivers
BcastRoot(r) ==
    /\ r = 0
    /\ Goto(r, "bcast", "assert")
    /\ bcast' = [epoch |-> epoch[r], val |-> root_uniform[r]]
    /\ Called(r, "bcast")
    /\ UNCHANGED <<params, counters, locals, table, effects, avgvars, seedvars>>

\* line 105 on a rank other than 0: blocks until the root's value of this epoch is there
BcastRecv(r) ==
    /\ r # 0
    /\ bcast.epoch = epoch[r]
    /\ Goto(r, "bcast", "assert")
    /\ root_uniform' = [root_uniform EXCEPT ![r] = bcast.val]
    /\ Called(r, "bcast")
    /\ UNCHANGED <<params, counters, best_success_rate, success_rate, local_uniform,
                   table, bcast, effects, avgvars, seedvars>>

\* Mutant of DecorrelationOk: rank 0 is checked like the others.
DecorrelationOk_allranks(r) == local_uniform[r] # root_uniform[r]

\* lines 107-108: the condition under which the rank passes
DecorrelationOk(r) == r # 0 => local_uniform[r] # root_uniform[r]

\* lines 107-108 passing, then line 47: the next epoch, or line 110. Both arrays
\* are dead from here on (line 103 makes new ones): they are dropped.
AssertPass(r) ==
    /\ DecorrelationOk(r)
    /\ Goto(r, "assert", IF epoch[r] + 1 < n_epochs THEN "clear_history" ELSE "done")
    /\ epoch' = [epoch EXCEPT ![r] = epoch[r] + 1]
    /\ local_uniform' = [local_uniform EXCEPT ![r] = 0]
    /\ root_uniform' = [root_uniform EXCEPT ![r] = 0]
    /\ Called(r, "assert")
    /\ UNCHANGED <<params, cycle, batch, rollout, key, best_success_rate, success_rate,
                   table, bcast, effects, avgvars, seedvars>>

\* lines 107-108 failing: AssertionError leaves train on this rank
AssertFail(r) ==
    /\ ~DecorrelationOk(r)
    /\ Goto(r, "assert", "failed")
    /\ Called(r, "assert")
    /\ UNCHANGED <<params, counters, locals, table, bcast, effects, avgvars, seedvars>>

Next ==
    \/ \E r \in Ranks : ClearHistory(r)
    \/ \E r \in Ranks : GenerateRollouts(r)
    \/ \E r \in Ranks : StoreEpisode(r)
    \/ \E r \in Ranks : PolicyTrain(r)
    \/ \E r \in Ranks : UpdateTargetNet(r)
    \/ \E r \in Ranks : EvaluatorClearHistory(r)
    \/ \E r \in Ranks : EvaluatorGenerateRollouts(r)
    \/ RecordLogs
    \/ \E r \in Ranks : DumpTabular(r)
    \/ SuccessRate
    \/ \E r \in Ranks : BestUpdate(r)
    \/ \E r \in Ranks : Periodic(r)
    \/ \E r \in Ranks : Draw(r)
    \/ \E r \in Ranks : BcastRoot(r)
    \/ \E r \in Ranks : BcastRecv(r)
    \/ \E r \in Ranks : AssertPass(r)
    \/ \E r \in Ranks : AssertFail(r)

Spec == Init /\ [][Next]_vars

\* train with every length of its inner loops (lines 52, 58, 66), none included
InitLoops ==
    /\ W \in 1..2
    /\ n_epochs \in 1..2
    /\ W * n_epochs <= 2
    /\ n_cycles \in 0..MaxInner
    /\ n_batches \in 0..MaxInner
    /\ n_test_rollouts \in 0..MaxInner
    /\ policy_save_interval = 1
    /\ save_path = TRUE
    /\ TrainStart("clear_history")
    /\ AvgIdle
    /\ SeedIdle

SpecLoops == InitLoops /\ [][Next]_vars

\* ------------------------------------------------------------- one mpi_average call
\* The numbers a local list may hold, and the values a rank may pass.
AvgVals == {Frac(-1, 1), Zero, Frac(1, 1)}
SeqsUpTo(S, n) == UNION {[1..k -> S] : k \in 0..n}
AvgInputs == {PyList(s) : s \in SeqsUpTo(AvgVals, MaxLen)} \cup {PyScalar(x) : x \in AvgVals}

InitAvg ==
    /\ W \in 1..MaxW
    /\ n_epochs = 1
    /\ n_cycles = 1
    /\ n_batches = 1
    /\ n_test_rollouts = 1
    /\ policy_save_interval = 0
    /\ save_path = FALSE
    /\ TrainStart("clear_history")
    /\ avg_pc = [r \in 0..(W - 1) |-> "call"]
    /\ avg_value \in [0..(W - 1) -> AvgInputs]
    /\ avg_arg = [r \in 0..(W - 1) |-> <<>>]
    /\ avg_result = [r \in 0..(W - 1) |-> Zero]
    /\ SeedIdle

\* lines 16-19 on rank r, up to the entry into mpi_moments
AvgCall(r) ==
    /\ avg_pc[r] = "call"
    /\ avg_arg' = [avg_arg EXCEPT ![r] = mpi_average_arg(avg_value[r])]
    /\ avg_pc' = [avg_pc EXCEPT ![r] = "reduce"]
    /\ UNCHANGED <<params, pc, counters, locals, table, bcast, effects, calls, avg_value, avg_result, seedvars>>

\* line 20: the reduction inside mpi_moments returns on every rank
AvgReduce ==
    /\ \A r \in Ranks : avg_pc[r] = "reduce"
    /\ avg_result' = [r \in Ranks |-> mpi_moments_mean(avg_arg)]
    /\ avg_pc' = [r \in Ranks |-> "returned"]
    /\ UNCHANGED <<params, pc, counters, locals, table, bcast, effects, calls, avg_value, avg_arg, seedvars>>

NextAvg ==
    \/ \E r \in Ranks : AvgCall(r)
    \/ AvgReduce

SpecAvg == InitAvg /\ [][NextAvg]_vars

\* ------------------------------------------------------------- mpi_average: properties
AvgReturned == \A r \in Ranks : avg_pc[r] = "returned"
IsEmptyList(value) == value.isList /\ Len(value.val) = 0

\* the local lists of ranks 0..k-1, one after the other
RECURSIVE ConcatLists(_)
ConcatLists(k) ==
    IF k = 0 THEN <<>> ELSE ConcatLists(k - 1) \o avg_value[k - 1].val

ArithmeticMean(s) ==
    LET t == SumSeq(s) IN Frac(t.num, t.den * Len(s))

EqualLengthLists ==
    /\ \A r \in Ranks : avg_value[r].isList
    /\ \A r \in Ranks : Len(avg_value[r].val) = Len(avg_value[0].val)
    /\ Len(avg_value[0].val) >= 1

\* C1: when every rank passes a list and the lists have the same length, the value
\* mpi_average returns on each rank is the arithmetic mean of the concatenation of
\* all the lists, whatever they hold (all-zero lists included).
C1_MeanOfConcatenation ==
    (AvgReturned /\ EqualLengthLists)
        => \A r \in Ranks : avg_result[r] = ArithmeticMean(ConcatLists(W))

\* the values of the call with rank r's value replaced by the list [0]
WithZeroList(r) == [q \in Ranks |-> IF q = r THEN PyList(<<Zero>>) ELSE avg_value[q]]

\* C2: a rank that calls mpi_average with an empty list contributes the sum 0 and
\* the count 1 to the reduction, and the result on every rank is the one the call
\* returns when that rank passes [0] instead, whatever the other ranks pass.
C2_EmptyListCountsAsZero ==
    \A r \in Ranks :
        IsEmptyList(avg_value[r]) =>
            /\ avg_pc[r] # "call" => (SumSeq(avg_arg[r]) = Zero /\ Len(avg_arg[r]) = 1)
            /\ AvgReturned =>
                \A q \in Ranks : avg_result[q] = mpi_average(WithZeroList(r))

\* an empty list met a non-zero contribution: [] and [1] average to 1/2
C2_Witness ==
    /\ AvgReturned
    /\ \E r \in Ranks : IsEmptyList(avg_value[r]) /\ avg_result[r] = Frac(1, 2)

\* ------------------------------------------------------------- train: properties
\* the epochs whose best-update step (lines 91-95) rank 0 has taken
BestDecided ==
    IF pc[0] \in {"periodic", "draw", "bcast", "assert"} THEN epoch[0] + 1 ELSE epoch[0]
\* the epochs whose periodic step (lines 96-99) rank 0 has taken
PeriodicDecided ==
    IF pc[0] \in {"draw", "bcast", "assert"} THEN epoch[0] + 1 ELSE epoch[0]

\* save_policy calls for `path` made in epoch e, and in the whole run
WriteCount(path, e) ==
    Cardinality({i \in DOMAIN writes : writes[i].path = path /\ writes[i].epoch = e})
SlotCount(slot) == Cardinality({i \in DOMAIN writes : writes[i].path.slot = slot})

Monotone(seq) == \A i \in 1..(Len(seq) - 1) : FracGE(seq[i + 1], seq[i])
MaxRate(seq) ==
    CHOOSE m \in {seq[i] : i \in DOMAIN seq} : \A i \in DOMAIN seq : FracGE(m, seq[i])
FirstRates(n) == SubSeq(rates, 1, n)

\* C3: on rank 0, while the aggregated success rates never decrease, the tracker
\* after N epochs is the maximum of the first N rates, and each of those epochs
\* requested a write of the "best" slot (carried out when a directory is configured).
C3_BestTracksMaximum ==
    (BestDecided >= 1 /\ Monotone(FirstRates(BestDecided))) =>
        /\ best_success_rate[0] = MaxRate(FirstRates(BestDecided))
        /\ save_path => \A e \in 0..(BestDecided - 1) : WriteCount(best_policy_path, e) >= 1

\* the end of the run of 1 worker, 2 epochs, 2 cycles per epoch, K = 0, rates 0.2, 0.5
Scenario ==
    /\ W = 1 /\ n_epochs = 2 /\ n_cycles = 2 /\ policy_save_interval = 0
    /\ rates = <<Frac(1, 5), Frac(1, 2)>>
    /\ pc[0] = "done"

BestLatestPaired ==
    \A e \in 0..(n_epochs - 1) :
        WriteCount(latest_policy_path, e) = WriteCount(best_policy_path, e)

\* C4 as stated, for a run that has a directory to write to: the scenario ends
\* with the tracker at 0.5, one "best" write in the whole run (in epoch 1), one
\* "latest" write per best-update and no periodic write.
C4_Original ==
    (Scenario /\ save_path) =>
        /\ best_success_rate[0] = Frac(1, 2)
        /\ SlotCount("best") = 1
        /\ WriteCount(best_policy_path, 1) = 1
        /\ BestLatestPaired
        /\ SlotCount("periodic") = 0

\* C4 amended: with a directory configured the scenario ends with the tracker at
\* 0.5 and two "best" writes, one in epoch 0 and one in epoch 1; in every
\* configuration each "best" write has one "latest" write and nothing is periodic.
C4_TwoBestWrites ==
    Scenario =>
        /\ save_path =>
            /\ best_success_rate[0] = Frac(1, 2)
            /\ SlotCount("best") = 2
            /\ WriteCount(best_policy_path, 0) = 1
            /\ WriteCount(best_policy_path, 1) = 1
        /\ BestLatestPaired
        /\ SlotCount("periodic") = 0

C4_Witness == Scenario /\ save_path /\ SlotCount("latest") = 2

\* C5: whenever rank 0 takes the best-update step with a rate s >= b, the tracker
\* becomes s, in every configuration (with or without a checkpoint directory).
C5_TrackerSetWheneverNotWorse ==
    [][(/\ pc[0] = "best_update"
        /\ pc'[0] = "periodic"
        /\ FracGE(success_rate[0], best_success_rate[0]))
            => best_success_rate'[0] = success_rate[0]]_vars

\* rates 0.6, 0.3 with a directory: update in epoch 0, none in epoch 1, tracker 0.6
C6_Example ==
    (save_path /\ BestDecided = 2 /\ FirstRates(2) = <<Frac(3, 5), Frac(3, 10)>>) =>
        /\ best_success_rate[0] = Frac(3, 5)
        /\ WriteCount(best_policy_path, 0) = 1
        /\ WriteCount(best_policy_path, 1) = 0
        /\ WriteCount(latest_policy_path, 1) = 0

C7_PeriodicExactlyEveryK ==
    save_path =>
        /\ \A e \in 0..(n_epochs - 1) :
            WriteCount(periodic_policy_path(e), e) =
                IF /\ e < PeriodicDecided
                   /\ policy_save_interval > 0
                   /\ e % policy_save_interval = 0
                THEN 1 ELSE 0
        /\ \A i \in DOMAIN writes :
            writes[i].path.slot = "periodic" => writes[i].path.n = writes[i].epoch

\* K = 3: epoch 3 has its periodic write and no best-update
C7_Witness ==
    /\ save_path /\ policy_save_interval = 3
    /\ WriteCount(periodic_policy_path(0), 0) = 1
    /\ WriteCount(periodic_policy_path(3), 3) = 1
    /\ WriteCount(best_policy_path, 3) = 0
    /\ pc[0] = "done"

\* C8: every save_policy call and every dump_tabular call was made by rank 0, and
\* on every other rank the tracker still holds its initial value.
C8_OnlyRankZeroSideEffects ==
    /\ \A i \in DOMAIN writes : writes[i].rank = 0
    /\ \A i \in DOMAIN dumps : dumps[i].rank = 0
    /\ \A r \in Ranks \ {0} : best_success_rate[r] = Sentinel

C8_Witness ==
    /\ W >= 2 /\ pc[1] = "done" /\ pc[0] = "done"
    /\ SlotCount("best") >= 1 /\ SlotCount("periodic") >= 1 /\ Len(dumps) = n_epochs

\* C9: without a checkpoint directory no save_policy call is ever made.
C9_NoDirectoryNoWrites == ~save_path => writes = <<>>

C9_Witness ==
    /\ ~save_path /\ policy_save_interval = 1 /\ n_epochs >= 2 /\ pc[0] = "done"
    /\ Monotone(rates)

\* C10: a rank leaves the check of lines 107-108 by raising exactly when it is not
\* rank 0 and its own draw equals the value rank 0 broadcast; rank 0 never raises.
C10_RaisesExactlyOnCollision ==
    [][\A r \in Ranks :
          (pc[r] = "assert" /\ pc'[r] # "assert")
              => (pc'[r] = "failed" <=> (r # 0 /\ local_uniform[r] = bcast.val))]_vars

C10_Witness ==
    /\ W >= 2 /\ pc[1] = "failed" /\ pc[0] = "done"

\* ------------------------------------------------------------- learn: the seed of a rank
\* line 135: the factor between the seeds of neighbouring ranks
SeedScale == 1000000

Some(x) == [some |-> TRUE, val |-> x]
\* base seeds given to learn (seed=None is NoSeed)
SeedVals == {0, 7, 999999, 1000000, 1000000000}

\* Mutant of rank_seed_of: the rank is left out of the seed.
rank_seed_of_norank(s, rank) == IF s.some THEN Some(s.val) ELSE NoSeed

\* line 135: rank_seed = seed + 1000000 * rank if seed is not None else None
rank_seed_of(s, rank) == IF s.some THEN Some(s.val + SeedScale * rank) ELSE NoSeed

\* learn on one rank of a world of W ranks, before line 131; train has not started
InitSeed ==
    /\ W \in {1, MaxW, MaxWorld}
    /\ n_epochs = 1
    /\ n_cycles = 1
    /\ n_batches = 1
    /\ n_test_rollouts = 1
    /\ policy_save_interval = 0
    /\ save_path = FALSE
    /\ pc = <<>> /\ epoch = <<>> /\ cycle = <<>> /\ batch = <<>>
    /\ rollout = <<>> /\ key = <<>>
    /\ best_success_rate = <<>> /\ success_rate = <<>>
    /\ local_uniform = <<>> /\ root_uniform = <<>>
    /\ table = <<>> /\ calls = <<>>
    /\ bcast = [epoch |-> -1, val |-> 0]
    /\ writes = <<>> /\ dumps = <<>> /\ rates = <<>>
    /\ avg_pc = <<>> /\ avg_value = <<>> /\ avg_arg = <<>> /\ avg_result = <<>>
    /\ learn_pc = "seed"
    /\ learn_rank \in 0..(W - 1)
    /\ seed \in {NoSeed} \cup {Some(v) : v \in SeedVals}
    /\ rank_seed = NoSeed

\* lines 131-136
SetGlobalSeeds ==
    /\ learn_pc = "seed"
    /\ rank_seed' = rank_seed_of(seed, learn_rank)
    /\ learn_pc' = "seeded"
    /\ UNCHANGED <<params, pc, counters, locals, table, bcast, effects, calls, avgvars,
                   learn_rank, seed>>

NextSeed == SetGlobalSeeds

SpecSeed == InitSeed /\ [][NextSeed]_vars

\* C12: the seed a rank derives from a given base seed differs from the seed every
\* other rank of the world (up to MaxWorld ranks) derives from it, and is
\* base + 1000000 * rank; without a base seed the derived seed is absent.
C12_RankSeedsDistinct ==
    learn_pc = "seeded" =>
        IF seed.some
        THEN /\ rank_seed.some
             /\ rank_seed.val - seed.val = 1000000 * learn_rank
             /\ \A q \in Ranks \ {learn_rank} : rank_seed_of(seed, q) # rank_seed
        ELSE rank_seed = NoSeed

C12_Witness ==
    /\ learn_pc = "seeded" /\ W = 1000 /\ learn_rank = 999
    /\ seed = Some(7) /\ rank_seed = Some(999000007)

\* ------------------------------------------------------------- failure of one rank
\* C11: once a rank has failed the check of epoch e, no rank makes a rollout or an
\* optimization step of epoch e + 1, and no checkpoint of epoch e + 1 is written.
C11_FailureStopsEveryRank ==
    [][\A r \in Ranks : pc[r] = "failed" =>
          /\ \A q \in Ranks :
                (/\ epoch[q] = epoch[r] + 1
                 /\ pc[q] \in {"generate_rollouts", "train", "evaluator_generate_rollouts"})
                    => calls'[q] = calls[q]
          /\ epoch[0] = epoch[r] + 1 => writes' = writes]_vars

\* ------------------------------------------------------------- collective calls
IsCollective(name) ==
    \/ \E k \in 1..Len(LogKeys) : name = LogKeys[k]
    \/ name \in {"success_rate", "bcast"}
\* the blocking collective calls of one epoch, in order (lines 74, 78, 82, 89, 105)
EpochCollectives == LogKeys \o <<"success_rate", "bcast">>
IsPrefix(s, t) == Len(s) <= Len(t) /\ s = SubSeq(t, 1, Len(s))
AllDone == \A r \in Ranks : pc[r] = "done"
SomeFailed == \E r \in Ranks : pc[r] = "failed"
EpochComplete(r) == pc[r] = "done" \/ (pc[r] = "clear_history" /\ epoch[r] > 0)

SameCollectives ==
    \A r \in Ranks :
        LET made == SelectSeq(calls[r], IsCollective)
        IN  /\ IsPrefix(made, EpochCollectives)
            /\ EpochComplete(r) => made = EpochCollectives

\* rank r stands in a collective call that cannot return yet: an aggregation
\* (lines 74, 78, 82, 89) some rank has not entered, or the broadcast (line 105)
\* whose root has not sent
Blocked(r) ==
    \/ pc[r] \in {"record_logs", "success_rate"} /\ ~AllAt(pc[r])
    \/ pc[r] = "bcast" /\ r # 0 /\ bcast.epoch # epoch[r]
CanStep(r) == pc[r] \notin {"done", "failed"} /\ ~Blocked(r)
NoRankBlocked == SomeFailed \/ AllDone \/ \E r \in Ranks : CanStep(r)

\* C13: on every rank the collective calls of an epoch are, in this order, one
\* aggregation per logged metric, the aggregation of the success rate and the
\* broadcast; and unless a rank has failed, the run has either returned on every
\* rank or some rank can take its next step.
C13_SameCollectivesAndReturn == SameCollectives /\ NoRankBlocked

C13_Witness ==
    /\ W = 2 /\ n_epochs = 2 /\ AllDone /\ save_path /\ policy_save_interval = 1
    /\ \A r \in Ranks : SelectSeq(calls[r], IsCollective) = EpochCollectives

\* ------------------------------------------------------------- a rank that has stopped
\* rank r has failed in an epoch after which the other ranks make further collective calls
StoppedBeforeCollective(r) == pc[r] = "failed" /\ epoch[r] + 1 < n_epochs
\* rank q waits in the first collective call of the epoch after the failure of r
WaitsFor(q, r) ==
    /\ epoch[q] = epoch[r] + 1
    /\ pc[q] = "record_logs"
    /\ key[q] = 1

\* C14: once a rank has failed before a collective call the others go on to make,
\* no rank returns from train, no rank goes past the epoch after the failure, and
\* a rank that has entered that collective call stays in it at every step.
C14_OthersBlockForever ==
    /\ [](\A r \in Ranks : StoppedBeforeCollective(r) =>
            \A q \in Ranks :
                /\ pc[q] # "done"
                /\ epoch[q] <= epoch[r] + 1
                /\ (epoch[q] = epoch[r] + 1 /\ pc[q] # "clear_history")
                        => SelectSeq(calls[q], IsCollective) = <<>>)
    /\ [][\A r \in Ranks : StoppedBeforeCollective(r) =>
            /\ pc'[r] = "failed"
            /\ \A q \in Ranks : WaitsFor(q, r) =>
                    pc'[q] = pc[q] /\ key'[q] = key[q] /\ calls'[q] = calls[q]]_vars

C14_Witness ==
    /\ W = 2 /\ StoppedBeforeCollective(1) /\ WaitsFor(0, 1) /\ Blocked(0)
    /\ ~\E r \in Ranks : CanStep(r)

\* ------------------------------------------------------------- the order of the calls
RECURSIVE Repeat(_, _)
Repeat(s, n) == IF n <= 0 THEN <<>> ELSE s \o Repeat(s, n - 1)
Count(s, name) == Cardinality({i \in DOMAIN s : s[i] = name})

CycleCallNames == {"generate_rollouts", "store_episode", "train", "update_target_net"}
IsCycleCall(name) == name \in CycleCallNames
\* the calls of one cycle, and of the cycles of one epoch
OneCycle ==
    <<"generate_rollouts", "store_episode">> \o Repeat(<<"train">>, n_batches)
        \o <<"update_target_net">>
EpochCycles == Repeat(OneCycle, n_cycles)
\* rank r has begun an epoch, and is past its cycles
Begun(r) == calls[r] # <<>>
CyclesOver(r) == Begun(r) /\ pc[r] \notin CycleCallNames

\* C15: on every rank the calls of the cycles of an epoch are, cycle after cycle,
\* generate_rollouts, store_episode, n_batches times train, update_target_net;
\* so an epoch has n_cycles update_target_net and n_cycles * n_batches train calls.
C15_CycleOrderAndCounts ==
    \A r \in Ranks :
        LET made == SelectSeq(calls[r], IsCycleCall)
        IN  /\ IsPrefix(made, EpochCycles)
            /\ CyclesOver(r) =>
                /\ made = EpochCycles
                /\ Count(calls[r], "update_target_net") = n_cycles
                /\ Count(calls[r], "train") = n_cycles * n_batches

C15_Witness ==
    /\ n_cycles = 2 /\ n_batches = 2 /\ pc[0] = "evaluator_clear_history"
    /\ epoch[0] = 1
    /\ SelectSeq(calls[0], IsCycleCall) =
            <<"generate_rollouts", "store_episode", "train", "train", "update_target_net",
              "generate_rollouts", "store_episode", "train", "train", "update_target_net">>

\* the calls of one epoch on rank r (lines 50-108)
EpochCalls(r) ==
    <<"clear_history">> \o EpochCycles \o <<"evaluator_clear_history">>
        \o Repeat(<<"evaluator_generate_rollouts">>, n_test_rollouts)
        \o LogKeys \o (IF r = 0 THEN <<"dump_tabular">> ELSE <<>>)
        \o <<"success_rate", "best_update", "periodic", "draw", "bcast", "assert">>
EpochOver(r) == EpochComplete(r) \/ pc[r] = "failed"
EvaluationOver(r) ==
    /\ Count(calls[r], "evaluator_generate_rollouts") = n_test_rollouts
    /\ rollout[r] = n_test_rollouts

\* C16: on every rank the calls of an epoch are the history reset, the n_cycles
\* cycles, the evaluator's history reset, n_test_rollouts evaluation rollouts, the
\* aggregations of the test, train and policy metrics, the log flush (rank 0), the
\* aggregation of the success rate, the checkpoint decisions and the decorrelation
\* check, in this order; and a checkpoint is only written by a rank whose
\* evaluation rollouts of the epoch are all made.
C16_EpochOrder ==
    /\ [](\A r \in Ranks :
            /\ IsPrefix(calls[r], EpochCalls(r))
            /\ EpochOver(r) => calls[r] = EpochCalls(r))
    /\ [][\A r \in Ranks : \A i \in (DOMAIN writes') \ (DOMAIN writes) :
            writes'[i].rank = r =>
                /\ EvaluationOver(r)
                /\ writes'[i].epoch = epoch[r]
                /\ pc[r] \in {"best_update", "periodic"}]_vars

C16_Witness ==
    /\ n_cycles = 1 /\ n_batches = 2 /\ n_test_rollouts = 2 /\ pc[0] = "done"
    /\ n_epochs = 2 /\ SlotCount("periodic") = 2
    /\ calls[0] = <<"clear_history", "generate_rollouts", "store_episode", "train", "train",
                    "update_target_net", "evaluator_clear_history",
                    "evaluator_generate_rollouts", "evaluator_generate_rollouts",
                    "test/success_rate", "train/success_rate", "stats_o/mean",
                    "dump_tabular", "success_rate", "best_update", "periodic",
                    "draw", "bcast", "assert">>

\* ------------------------------------------------------------- the checkpoint slots
WritesTo(slot) == {i \in DOMAIN writes : writes[i].path.slot = slot}
LastOf(S) == CHOOSE i \in S : \A j \in S : j <= i
\* the epoch whose policy a slot holds; -1 while the slot has not been written
SlotHolds(slot) ==
    IF WritesTo(slot) = {} THEN -1 ELSE writes[LastOf(WritesTo(slot))].epoch

\* C17: each epoch has as many "latest" writes as "best" writes; every "best"
\* write is directly followed by the "latest" write of the same epoch and rank,
\* and no other "latest" write exists; so both slots hold the same epoch's policy.
C17_LatestWithBest ==
    /\ BestLatestPaired
    /\ \A i \in WritesTo("best") :
            /\ i + 1 \in WritesTo("latest")
            /\ writes[i + 1].epoch = writes[i].epoch
            /\ writes[i + 1].rank = writes[i].rank
    /\ \A i \in WritesTo("latest") : i - 1 \in WritesTo("best")
    /\ SlotHolds("latest") = SlotHolds("best")

\* a best-update in epoch 0, none in epoch 1, and a periodic write after it
C17_Witness ==
    /\ pc[0] = "done" /\ n_epochs = 2 /\ SlotCount("periodic") = 2
    /\ SlotHolds("best") = 0 /\ SlotHolds("latest") = 0

\* C18: a write to a periodic slot goes to the file named by its epoch, and no
\* other write of the run, periodic or best or latest, goes to that file.
C18_PeriodicSlotWrittenOnce ==
    \A i \in WritesTo("periodic") :
        /\ writes[i].file = <<"policy_">> \o str(writes[i].epoch) \o <<".pkl">>
        /\ \A j \in DOMAIN writes : j # i => writes[j].file # writes[i].file

C18_Witness ==
    /\ SlotCount("periodic") = 4 /\ SlotCount("best") >= 2
    /\ \E i \in DOMAIN writes : writes[i].file = <<"policy_", "3", ".pkl">>

\* C19: on rank 0 the tracker is -1 exactly while no "best" write has been made,
\* and otherwise it is the aggregated success rate of the epoch of the last
\* "best" write; and no step lowers it.
C19_TrackerConsistentWithBestSlot ==
    /\ [](/\ best_success_rate[0] = Sentinel <=> WritesTo("best") = {}
          /\ WritesTo("best") # {} =>
                best_success_rate[0] = rates[SlotHolds("best") + 1])
    /\ [][FracGE(best_success_rate'[0], best_success_rate[0])]_vars

\* best-updates in epochs 0 and 1, none in epoch 2
C19_Witness ==
    /\ pc[0] = "done" /\ n_epochs = 3 /\ SlotHolds("best") = 1
    /\ rates = <<Frac(1, 5), Frac(1, 2), Frac(3, 10)>>
    /\ best_success_rate[0] = Frac(1, 2)
====
